---- MODULE Spec2Model ----
(***************************************************************************)
(* Thermal_plot_code_V3.py: a batch script that loads a table of component *)
(* temperatures, resamples every component onto a shared fine time grid    *)
(* with PCHIP, writes a compliance report grouped by deck and saves plots. *)
(*                                                                         *)
(* Numbers are exact rationals <<n, d>> with d > 0 in lowest terms; a      *)
(* missing value (NaN) is <<0, 0>>.  Text (column names, configuration     *)
(* values, rendered report fields) is a sequence of one-character strings. *)
(***************************************************************************)
EXTENDS Integers, Sequences, FiniteSets, TLC

(***************************************************************************)
(* Exact arithmetic for the float values of the script.                    *)
(***************************************************************************)
Abs(n) == IF n < 0 THEN -n ELSE n

RECURSIVE GCD(_, _)
GCD(a, b) == IF b = 0 THEN a ELSE GCD(b, a % b)

Norm(n, d) ==
    LET s == IF d < 0 THEN -1 ELSE 1
        g == GCD(Abs(n), Abs(d))
    IN  <<(s * n) \div g, (s * d) \div g>>

R(n) == <<n, 1>>
NaN == <<0, 0>>

RAdd(a, b) == Norm(a[1] * b[2] + b[1] * a[2], a[2] * b[2])
RSub(a, b) == Norm(a[1] * b[2] - b[1] * a[2], a[2] * b[2])
RMul(a, b) == Norm(a[1] * b[1], a[2] * b[2])
RDiv(a, b) == Norm(a[1] * b[2], a[2] * b[1])
RLe(a, b) == a[1] * b[2] <= b[1] * a[2]
RLt(a, b) == a[1] * b[2] < b[1] * a[2]
RSign(a) == IF a[1] > 0 THEN 1 ELSE IF a[1] < 0 THEN -1 ELSE 0
RAbs(a) == <<Abs(a[1]), a[2]>>
RFloor(a) == a[1] \div a[2]
RCeil(a) == -((-a[1]) \div a[2])

RECURSIVE SeqMin(_)
SeqMin(s) ==
    IF Len(s) = 1 THEN s[1]
    ELSE LET m == SeqMin(Tail(s)) IN IF RLe(s[1], m) THEN s[1] ELSE m

RECURSIVE SeqMax(_)
SeqMax(s) ==
    IF Len(s) = 1 THEN s[1]
    ELSE LET m == SeqMax(Tail(s)) IN IF RLe(m, s[1]) THEN s[1] ELSE m

SelectIdx(s, Keep(_)) ==
    LET F[i \in 0..Len(s)] ==
            IF i = 0 THEN << >>
            ELSE IF Keep(i) THEN Append(F[i - 1], s[i]) ELSE F[i - 1]
    IN  F[Len(s)]

(***************************************************************************)
(* Text operations of the script, on sequences of characters.              *)
(***************************************************************************)
IsPrefixAt(s, i, pat) ==
    /\ i + Len(pat) - 1 <= Len(s)
    /\ \A j \in 1..Len(pat) : s[i + j - 1] = pat[j]

\* The first index at which pat occurs in s, or 0.
FindFirst(s, pat) ==
    IF \E i \in 1..Len(s) : IsPrefixAt(s, i, pat)
    THEN CHOOSE i \in 1..Len(s) :
            /\ IsPrefixAt(s, i, pat)
            /\ \A j \in 1..(i - 1) : ~IsPrefixAt(s, j, pat)
    ELSE 0

\* s.split(pat)[0]
SplitHead(s, pat) ==
    LET i == FindFirst(s, pat) IN IF i = 0 THEN s ELSE SubSeq(s, 1, i - 1)

\* s.split(pat), all the pieces
RECURSIVE Split(_, _)
Split(s, pat) ==
    LET i == FindFirst(s, pat)
    IN  IF i = 0 THEN <<s>>
        ELSE <<SubSeq(s, 1, i - 1)>> \o Split(SubSeq(s, i + Len(pat), Len(s)), pat)

\* s.replace(old, new), every occurrence, left to right; old is not empty
RECURSIVE Replace(_, _, _)
Replace(s, old, new) ==
    LET i == FindFirst(s, old)
    IN  IF i = 0 THEN s
        ELSE SubSeq(s, 1, i - 1) \o new \o Replace(SubSeq(s, i + Len(old), Len(s)), old, new)

RECURSIVE Strip(_)
Strip(s) ==
    IF s = << >> THEN s
    ELSE IF s[1] = " " THEN Strip(Tail(s))
    ELSE IF s[Len(s)] = " " THEN Strip(SubSeq(s, 1, Len(s) - 1))
    ELSE s

UpperChars == <<"A","B","C","D","E","F","G","H","I","J","K","L","M",
                "N","O","P","Q","R","S","T","U","V","W","X","Y","Z">>
LowerChars == <<"a","b","c","d","e","f","g","h","i","j","k","l","m",
                "n","o","p","q","r","s","t","u","v","w","x","y","z">>

LowerChar(c) ==
    IF \E i \in 1..26 : UpperChars[i] = c
    THEN LowerChars[CHOOSE i \in 1..26 : UpperChars[i] = c]
    ELSE c

\* s.lower()
Lower(s) == [i \in 1..Len(s) |-> LowerChar(s[i])]

Digits == <<"0","1","2","3","4","5","6","7","8","9">>
IsDigit(c) == \E i \in 1..10 : Digits[i] = c
DigitVal(c) == (CHOOSE i \in 1..10 : Digits[i] = c) - 1

RECURSIVE NatOf(_)
NatOf(s) == IF s = << >> THEN 0 ELSE 10 * NatOf(SubSeq(s, 1, Len(s) - 1)) + DigitVal(s[Len(s)])

RECURSIVE Pow10(_)
Pow10(k) == IF k = 0 THEN 1 ELSE 10 * Pow10(k - 1)

\* The decimal literals float() accepts here: [-]digits[.digits], blanks around.
IsFloatText(s0) ==
    LET s == Strip(s0)
        u == IF s # << >> /\ s[1] = "-" THEN Tail(s) ELSE s
        p == FindFirst(u, <<".">>)
        ip == IF p = 0 THEN u ELSE SubSeq(u, 1, p - 1)
        fp == IF p = 0 THEN << >> ELSE SubSeq(u, p + 1, Len(u))
    IN  /\ Len(ip) + Len(fp) > 0
        /\ \A i \in 1..Len(ip) : IsDigit(ip[i])
        /\ \A i \in 1..Len(fp) : IsDigit(fp[i])

\* float(s) for such a literal
ParseFloat(s0) ==
    LET s == Strip(s0)
        neg == s # << >> /\ s[1] = "-"
        u == IF neg THEN Tail(s) ELSE s
        p == FindFirst(u, <<".">>)
        ip == IF p = 0 THEN u ELSE SubSeq(u, 1, p - 1)
        fp == IF p = 0 THEN << >> ELSE SubSeq(u, p + 1, Len(u))
        v == Norm(NatOf(ip) * Pow10(Len(fp)) + NatOf(fp), Pow10(Len(fp)))
    IN  IF neg THEN <<-v[1], v[2]>> ELSE v

RECURSIVE NatText(_)
NatText(n) == IF n < 10 THEN <<Digits[n + 1]>> ELSE NatText(n \div 10) \o <<Digits[(n % 10) + 1]>>

RECURSIVE ZeroPad(_, _)
ZeroPad(s, w) == IF Len(s) >= w THEN s ELSE ZeroPad(<<"0">> \o s, w)

\* format(q, '.<k>f'): q rounded to k decimals, ties to even, sign kept
FormatFixed(q, k) ==
    LET a == Abs(q[1]) * Pow10(k)
        fl == a \div q[2]
        rem2 == 2 * (a % q[2])
        u == IF rem2 > q[2] \/ (rem2 = q[2] /\ fl % 2 = 1) THEN fl + 1 ELSE fl
        body == IF k = 0 THEN NatText(u)
                ELSE NatText(u \div Pow10(k)) \o <<".">> \o ZeroPad(NatText(u % Pow10(k)), k)
    IN  IF q[1] < 0 THEN <<"-">> \o body ELSE body

RECURSIVE PadRight(_, _)
PadRight(s, w) == IF Len(s) >= w THEN s ELSE PadRight(Append(s, " "), w)

(***************************************************************************)
(* scipy.interpolate.pchip_interpolate(xi, yi, x): the derivatives at the  *)
(* knots (three-point harmonic mean inside, the one-sided shape-preserving *)
(* formula at the ends, the secant for two points) and the cubic Hermite   *)
(* pieces; a point outside [xi[1], xi[n]] is evaluated on the end piece.   *)
(***************************************************************************)
StrictlyIncreasing(xs) == \A i \in 1..(Len(xs) - 1) : RLt(xs[i], xs[i + 1])

PchipH(xs) == [k \in 1..(Len(xs) - 1) |-> RSub(xs[k + 1], xs[k])]
PchipM(xs, ys) ==
    [k \in 1..(Len(xs) - 1) |-> RDiv(RSub(ys[k + 1], ys[k]), RSub(xs[k + 1], xs[k]))]

PchipEdge(h0, h1, m0, m1) ==
    LET d == RDiv(RSub(RMul(RAdd(RMul(R(2), h0), h1), m0), RMul(h0, m1)), RAdd(h0, h1))
    IN  IF RSign(d) # RSign(m0) THEN R(0)
        ELSE IF RSign(m0) # RSign(m1) /\ RLt(RMul(R(3), RAbs(m0)), RAbs(d))
             THEN RMul(R(3), m0)
        ELSE d

PchipDerivatives(xs, ys) ==
    LET n == Len(xs)
        h == PchipH(xs)
        m == PchipM(xs, ys)
        Inner(k) ==
            IF RSign(m[k - 1]) # RSign(m[k]) \/ m[k][1] = 0 \/ m[k - 1][1] = 0 THEN R(0)
            ELSE LET w1 == RAdd(RMul(R(2), h[k]), h[k - 1])
                     w2 == RAdd(h[k], RMul(R(2), h[k - 1]))
                 IN  RDiv(RAdd(w1, w2), RAdd(RDiv(w1, m[k - 1]), RDiv(w2, m[k])))
    IN  IF n = 2 THEN <<m[1], m[1]>>
        ELSE [k \in 1..n |->
                IF k = 1 THEN PchipEdge(h[1], h[2], m[1], m[2])
                ELSE IF k = n THEN PchipEdge(h[n - 1], h[n - 2], m[n - 1], m[n - 2])
                ELSE Inner(k)]

PchipPiece(xs, x) ==
    LET n == Len(xs)
    IN  IF RLt(x, xs[1]) THEN 1
        ELSE IF RLe(xs[n], x) THEN n - 1
        ELSE CHOOSE k \in 1..(n - 1) : RLe(xs[k], x) /\ RLt(x, xs[k + 1])

PchipEval(xs, ys, d, x) ==
    LET k == PchipPiece(xs, x)
        h == RSub(xs[k + 1], xs[k])
        t == RDiv(RSub(x, xs[k]), h)
        t2 == RMul(t, t)
        t3 == RMul(t2, t)
        h00 == RAdd(RSub(RMul(R(2), t3), RMul(R(3), t2)), R(1))
        h10 == RAdd(RSub(t3, RMul(R(2), t2)), t)
        h01 == RSub(RMul(R(3), t2), RMul(R(2), t3))
        h11 == RSub(t3, t2)
    IN  RAdd(RAdd(RMul(h00, ys[k]), RMul(RMul(h10, h), d[k])),
             RAdd(RMul(h01, ys[k + 1]), RMul(RMul(h11, h), d[k + 1])))

pchip_interpolate(xs, ys, grid) ==
    LET d == PchipDerivatives(xs, ys)
    IN  [i \in 1..Len(grid) |-> PchipEval(xs, ys, d, grid[i])]

\* np.linspace(lo, hi, n)
Linspace(lo, hi, n) ==
    [i \in 1..n |-> RAdd(lo, RDiv(RMul(R(i - 1), RSub(hi, lo)), R(n - 1)))]

(***************************************************************************)
(* Bounds of the model.  The script fixes num_interp_points at 5000 (line  *)
(* 179); the model resamples onto a coarser grid of the same construction. *)
(***************************************************************************)
num_interp_points == 5
MaxRuns == 2
MaxClock == 1

(***************************************************************************)
(* The input files the runs are checked on.                                *)
(***************************************************************************)
Text == <<1, 0>>      \* a cell holding a non-numeric marker
IsNumber(q) == q[2] # 0

T_TimeMin == <<"T","i","m","e",","," ","m","i","n">>
T_TimeS == <<"T","i","m","e",","," ","s">>
T_auto == <<"a","u","t","o">>
T_NA == <<"N","/","A">>
PWR_Battery_T1 == <<"P","W","R","_","B","a","t","t","e","r","y",".","T","1">>
PWR_Heater_T2 == <<"P","W","R","_","H","e","a","t","e","r",".","T","2">>
THM_Radiator_T1 == <<"T","H","M","_","R","a","d","i","a","t","o","r",".","T","1">>
pwr_a == <<"p","w","r","_","a">>
OBC_T1_a == <<"O","B","C",".","T","1","_","a">>
pwr_b == <<"p","w","r","_","b">>
Node_101 == <<"1","0","1">>

Col(name, cells) == [name |-> name, cells |-> cells]

TableA ==
    << Col(T_TimeMin,       <<R(0), R(1), R(2), R(3)>>),
       Col(PWR_Battery_T1,  <<R(-12), R(0), R(20), R(45)>>),
       Col(PWR_Heater_T2,   <<R(10), NaN, R(30), R(20)>>),
       Col(THM_Radiator_T1, <<NaN, R(5), NaN, NaN>>) >>

TableB ==
    << Col(T_TimeMin,       <<R(0), R(1), R(2), R(3)>>),
       Col(pwr_a,           <<R(0), R(10), NaN, NaN>>),
       Col(pwr_b,           <<Text, R(7), NaN, NaN>>),
       Col(THM_Radiator_T1, <<R(20), R(25), R(22), R(21)>>) >>

TableC ==
    << Col(T_TimeS,         <<R(0), R(60), R(120), R(180), NaN>>),
       Col(PWR_Battery_T1,  <<R(-12), R(0), R(20), R(45), NaN>>),
       Col(OBC_T1_a,        <<R(20), R(25), R(22), R(21), NaN>>),
       Col(PWR_Heater_T2,   <<R(10), NaN, R(30), R(20), NaN>>) >>

\* both time columns, the seconds one first
TableD ==
    << Col(T_TimeS,         <<R(0), R(60), R(120), R(180)>>),
       Col(T_TimeMin,       <<R(0), R(1), R(2), R(3)>>),
       Col(PWR_Battery_T1,  <<R(-12), R(0), R(20), R(45)>>) >>

\* the minutes column after a component column
TableE ==
    << Col(PWR_Battery_T1,  <<R(-12), R(0), R(20), R(45)>>),
       Col(T_TimeMin,       <<R(0), R(1), R(2), R(3)>>),
       Col(PWR_Heater_T2,   <<R(10), NaN, R(30), R(20)>>) >>

\* a component column headed by a node number
TableF ==
    << Col(T_TimeMin,       <<R(0), R(1), R(2), R(3)>>),
       Col(Node_101,        <<R(20), R(25), R(22), R(21)>>) >>

\* rows out of time order
TableG ==
    << Col(T_TimeMin,       <<R(0), R(2), R(1), R(3)>>),
       Col(THM_Radiator_T1, <<R(20), R(22), R(25), R(21)>>) >>

DataFiles ==
    { [status |-> "missing", columns |-> << >>],
      [status |-> "unreadable", columns |-> << >>] }
    \cup { [status |-> "ok", columns |-> t] :
                t \in {TableA, TableB, TableC, TableD, TableE, TableF, TableG} }

Limit(name, amin, amax, dmin, dmax) ==
    [ComponentName |-> name, Acceptance_Min |-> R(amin), Acceptance_Max |-> R(amax),
     Design_Min |-> R(dmin), Design_Max |-> R(dmax)]

LimitsFiles ==
    { [status |-> "missing", rows |-> << >>],
      [status |-> "malformed", rows |-> << >>],
      [status |-> "ok",
       rows |-> << Limit(PWR_Battery_T1, -10, 50, -15, 55),
                   Limit(pwr_a, -10, 20, -15, 25),
                   Limit(THM_Radiator_T1, 0, 30, -5, 35) >>] }

RangeProfiles ==
    { [full_plot_x_range |-> T_auto, last_2_orbits_plot_x_range |-> <<"1",","," ","2">>,
       deck_plot_x_range |-> T_auto,
       deck_last_2_orbits_plot_x_range |-> <<"1",","," ","2">>, deck_last_orbit_plot_x_range |-> <<"2",","," ","3">>],
      [full_plot_x_range |-> <<"0",","," ","3">>, last_2_orbits_plot_x_range |-> <<"1",","," ","2">>,
       deck_plot_x_range |-> <<"1",","," ","2">>,
       deck_last_2_orbits_plot_x_range |-> <<"5",","," ","6">>, deck_last_orbit_plot_x_range |-> <<"2",","," ","3">>],
      [full_plot_x_range |-> T_auto, last_2_orbits_plot_x_range |-> T_auto,
       deck_plot_x_range |-> T_auto,
       deck_last_2_orbits_plot_x_range |-> T_auto, deck_last_orbit_plot_x_range |-> T_auto] }

ConfigOf(rp, yr, man, ind, excl) ==
    [exists |-> TRUE,
     full_plot_x_range |-> rp.full_plot_x_range,
     last_2_orbits_plot_x_range |-> rp.last_2_orbits_plot_x_range,
     deck_plot_x_range |-> rp.deck_plot_x_range,
     deck_last_2_orbits_plot_x_range |-> rp.deck_last_2_orbits_plot_x_range,
     deck_last_orbit_plot_x_range |-> rp.deck_last_orbit_plot_x_range,
     full_plot_y_range |-> yr,
     deck_plot_y_range |-> yr,
     MANUAL_Y_LIMITS |-> man,
     generate_individual_plots |-> ind,
     exclude_components |-> excl]

DefaultRanges == CHOOSE rp \in RangeProfiles :
    rp.full_plot_x_range = T_auto /\ rp.deck_last_2_orbits_plot_x_range # T_auto

ManualNone == << >>
ManualSome == << <<<<"P","W","R">>, <<"-","2","0",","," ","6","0">>>>, <<pwr_a, <<"-","5",","," ","3","5">>>> >>

GoodConfigs ==
    { ConfigOf(rp, yr, man, ind, excl) :
        rp \in RangeProfiles,
        yr \in {T_auto, <<"-","2","0",","," ","6","0">>},
        man \in {ManualNone, ManualSome},
        ind \in {<<"T","r","u","e">>, <<"f","a","l","s","e">>},
        excl \in {<< >>, <<"P","W","R","_","H","e","a","t","e","r",".","T","2",","," ","p","w","r","_","a">>} }

MissingConfig == [ConfigOf(DefaultRanges, T_auto, ManualNone, <<"T","r","u","e">>, << >>) EXCEPT !.exists = FALSE]
MalformedConfig == ConfigOf(DefaultRanges, <<"-","2","0",";"," ","6","0">>, ManualNone, <<"T","r","u","e">>, << >>)

ConfigFiles == GoodConfigs \cup {MissingConfig, MalformedConfig}

(***************************************************************************)
(* State.  The script runs at module level, so its names are globals that  *)
(* keep their last value; the files are the data file, the limits file and *)
(* what the run has put under main_output_folder.                          *)
(***************************************************************************)
VARIABLES
    pc,                       \* position in the script; "exited" after sys.exit(), "crashed" after an uncaught exception
    exception,                \* the uncaught exception, or the reason of sys.exit()
    run,                      \* which run of the script this is
    now,                      \* the wall clock read by datetime.now(), in seconds
    config_file,              \* config.ini
    data_file,                \* the simulation data file
    limits_file,              \* the limits file
    config,                   \* the values parsed from config.ini (lines 38-109)
    main_output_folder,       \* the timestamp naming the output folder
    output_folders,           \* the folders made under main_output_folder
    data_df,
    all_component_names,
    limits_map,
    time_fine,
    loop_index,               \* position of the for loop over all_component_names
    deck_groups,
    deck_index,               \* position of the for loop over deck_groups
    member_index,             \* position of the for loop over component_list
    component_name,
    component_data_interp,
    all_interp_data_for_deck,
    ax_deck, ax_deck_zoomed, ax_deck_last_orbit,
    sim_min, sim_max, hot_margin, cold_margin, status,
    report_file,              \* thermal_report.txt under main_output_folder
    plots,                    \* the image files saved under main_output_folder
    console,                  \* what the run has printed
    previous_report           \* the report text of the run before this one

vars == <<pc, exception, run, now, config_file, data_file, limits_file, config,
          main_output_folder, output_folders, data_df, all_component_names,
          limits_map, time_fine, loop_index, deck_groups, deck_index, member_index,
          component_name, component_data_interp, all_interp_data_for_deck,
          ax_deck, ax_deck_zoomed, ax_deck_last_orbit,
          sim_min, sim_max, hot_margin, cold_margin, status,
          report_file, plots, console, previous_report>>

inputs == <<config_file, data_file>>
loaded == <<data_df, all_component_names, limits_map, time_fine>>
loops == <<loop_index, deck_groups, deck_index, member_index>>
deck_state == <<all_interp_data_for_deck, ax_deck, ax_deck_zoomed, ax_deck_last_orbit>>
row_state == <<component_name, component_data_interp, sim_min, sim_max, hot_margin, cold_margin, status>>
outputs == <<output_folders, report_file, plots>>

NoReport == [exists |-> FALSE, open |-> FALSE, lines |-> << >>]
NoConfig == [ok |-> FALSE]

Say(msg, arg) == [msg |-> msg, arg |-> arg]

\* The globals of one run before its first statement.
FreshRun ==
    /\ pc = "read_config"
    /\ exception = ""
    /\ config = NoConfig
    /\ main_output_folder = -1
    /\ output_folders = {}
    /\ data_df = << >>
    /\ all_component_names = << >>
    /\ limits_map = << >>
    /\ time_fine = << >>
    /\ loop_index = 0
    /\ deck_groups = << >>
    /\ deck_index = 0
    /\ member_index = 0
    /\ component_name = << >>
    /\ component_data_interp = << >>
    /\ all_interp_data_for_deck = << >>
    /\ ax_deck = << >>
    /\ ax_deck_zoomed = << >>
    /\ ax_deck_last_orbit = << >>
    /\ sim_min = NaN /\ sim_max = NaN /\ hot_margin = NaN /\ cold_margin = NaN
    /\ status = << >>
    /\ report_file = NoReport
    /\ plots = {}
    /\ console = << >>

Init ==
    /\ FreshRun
    /\ run = 1
    /\ now = 0
    /\ previous_report = << >>
    /\ config_file \in ConfigFiles
    /\ data_file \in DataFiles
    /\ limits_file \in LimitsFiles

(***************************************************************************)
(* Section 2: reading config.ini.                                          *)
(***************************************************************************)
\* parse_range: 'auto', or the list of floats between the commas
RangeTextOk(config_str) ==
    \/ Lower(Strip(config_str)) = T_auto
    \/ LET parts == Split(config_str, <<",">>)
       IN  \A i \in 1..Len(parts) : IsFloatText(parts[i])

parse_range(config_str) ==
    IF Lower(Strip(config_str)) = T_auto
    THEN [auto |-> TRUE, v |-> << >>]
    ELSE LET parts == Split(config_str, <<",">>)
         IN  [auto |-> FALSE, v |-> [i \in 1..Len(parts) |-> ParseFloat(parts[i])]]

\* ConfigParser.getboolean
BooleanTextOk(t) == Lower(t) \in {<<"1">>, <<"y","e","s">>, <<"t","r","u","e">>, <<"o","n">>, <<"0">>, <<"n","o">>, <<"f","a","l","s","e">>, <<"o","f","f">>}
getboolean(t) == Lower(t) \in {<<"1">>, <<"y","e","s">>, <<"t","r","u","e">>, <<"o","n">>}

\* config.items(section): ConfigParser stores option names lower-cased
ManualKeys(items) == {Lower(items[i][1]) : i \in 1..Len(items)}
manual_ylimits_of(items) ==
    [k \in ManualKeys(items) |->
        parse_range(items[CHOOSE i \in 1..Len(items) : Lower(items[i][1]) = k][2])]

\* [item.strip() for item in s.split(',') if item.strip()]
excluded_components_of(s) ==
    LET parts == Split(s, <<",">>)
        kept == SelectIdx(parts, LAMBDA i : Strip(parts[i]) # << >>)
    IN  {Strip(kept[i]) : i \in 1..Len(kept)}

RangeOptions(cf) ==
    <<cf.full_plot_x_range, cf.last_2_orbits_plot_x_range, cf.deck_plot_x_range,
      cf.deck_last_2_orbits_plot_x_range, cf.deck_last_orbit_plot_x_range,
      cf.full_plot_y_range, cf.deck_plot_y_range>>

ConfigParses(cf) ==
    /\ \A i \in 1..Len(RangeOptions(cf)) : RangeTextOk(RangeOptions(cf)[i])
    /\ \A i \in 1..Len(cf.MANUAL_Y_LIMITS) : RangeTextOk(cf.MANUAL_Y_LIMITS[i][2])
    /\ BooleanTextOk(cf.generate_individual_plots)

ParsedConfig(cf) ==
    [ok |-> TRUE,
     full_plot_x_range |-> parse_range(cf.full_plot_x_range),
     zoom_plot_x_range |-> parse_range(cf.last_2_orbits_plot_x_range),
     deck_plot_x_range |-> parse_range(cf.deck_plot_x_range),
     deck_zoom_plot_x_range |-> parse_range(cf.deck_last_2_orbits_plot_x_range),
     deck_last_orbit_plot_x_range |-> parse_range(cf.deck_last_orbit_plot_x_range),
     full_plot_y_range |-> parse_range(cf.full_plot_y_range),
     deck_plot_y_range |-> parse_range(cf.deck_plot_y_range),
     manual_ylimits |-> manual_ylimits_of(cf.MANUAL_Y_LIMITS),
     generate_individual_plots |-> getboolean(cf.generate_individual_plots),
     excluded_components |-> excluded_components_of(cf.exclude_components)]

ReadConfig ==
    /\ pc = "read_config"
    /\ IF ~config_file.exists
       THEN /\ console' = Append(console, Say("FATAL ERROR: config.ini not found", << >>))
            /\ pc' = "exited"
            /\ exception' = "config.ini not found"
            /\ UNCHANGED config
       ELSE IF ~ConfigParses(config_file)
       THEN /\ pc' = "crashed"
            /\ exception' = "ValueError in config"
            /\ UNCHANGED <<config, console>>
       ELSE /\ config' = ParsedConfig(config_file)
            /\ console' = Append(console, Say("Reading configuration", << >>))
            /\ pc' = "make_folders"
            /\ UNCHANGED exception
    /\ UNCHANGED <<run, now, inputs, limits_file, main_output_folder, loaded, loops,
                   deck_state, row_state, outputs, previous_report>>

\* Time passes; the script reads the clock at lines 113 and 313.
Tick ==
    /\ pc \in {"make_folders", "open_report"}
    /\ now < MaxClock
    /\ now' = now + 1
    /\ UNCHANGED <<pc, exception, run, inputs, limits_file, config, main_output_folder,
                   loaded, loops, deck_state, row_state, outputs, console, previous_report>>

(***************************************************************************)
(* Lines 112-129: the output folder tree, made before any file is read.    *)
(***************************************************************************)
MainFolders ==
    {"Component_Plots_Full_Profile", "Component_Plots_Zoomed_Profile",
     "Component_Plots_Consolidated_Decks", "Component_Plots_Consolidated_Decks_Zoomed",
     "Component_Plots_Consolidated_Decks_Last_Orbit", "Report"}

MakeFolders ==
    /\ pc = "make_folders"
    /\ main_output_folder' = now
    \* a folder of an earlier second is another folder: this one starts empty
    /\ IF main_output_folder' = main_output_folder
       THEN /\ output_folders' = output_folders \cup {<<f, << >> >> : f \in MainFolders}
            /\ UNCHANGED <<report_file, plots>>
       ELSE /\ output_folders' = {<<f, << >> >> : f \in MainFolders}
            /\ report_file' = NoReport
            /\ plots' = {}
    /\ console' = Append(console, Say("Creating main output directory", << >>))
    /\ pc' = "read_data"
    /\ UNCHANGED <<exception, run, now, inputs, limits_file, config, loaded, loops,
                   deck_state, row_state, previous_report>>

(***************************************************************************)
(* Lines 132-152: the data file and the time column.                       *)
(***************************************************************************)
ColumnNames(df) == [i \in 1..Len(df) |-> df[i].name]
HasColumn(df, name) == \E i \in 1..Len(df) : df[i].name = name
Column(df, name) == df[CHOOSE i \in 1..Len(df) : df[i].name = name].cells
NumRows(df) == IF df = << >> THEN 0 ELSE Len(df[1].cells)

\* lines 136-140: without a 'Time, min' column the first column is taken as seconds
RenameFirstToMinutes(df) ==
    [i \in 1..Len(df) |->
        IF i = 1
        THEN Col(T_TimeMin, [r \in 1..Len(df[1].cells) |->
                                IF IsNumber(df[1].cells[r])
                                THEN RDiv(df[1].cells[r], R(60)) ELSE NaN])
        ELSE df[i]]

\* lines 141-142
DropSeconds(df) ==
    IF HasColumn(df, T_TimeS) /\ HasColumn(df, T_TimeMin)
    THEN SelectIdx(df, LAMBDA i : df[i].name # T_TimeS)
    ELSE df

\* line 143: dropna(how='all')
DropEmptyRows(df) ==
    LET keep(r) == \E i \in 1..Len(df) : df[i].cells[r] # NaN
    IN  [i \in 1..Len(df) |->
            Col(df[i].name, SelectIdx(df[i].cells, keep))]

ProcessData(columns) ==
    LET a == IF HasColumn(columns, T_TimeMin) THEN columns ELSE RenameFirstToMinutes(columns)
    IN  DropEmptyRows(DropSeconds(a))

\* line 140 divides the column: a text cell in it raises, caught at line 148
TimeDivides(columns) ==
    HasColumn(columns, T_TimeMin) \/ \A r \in 1..NumRows(columns) : columns[1].cells[r] # Text

ReadData ==
    /\ pc = "read_data"
    /\ IF data_file.status = "missing"
       THEN /\ console' = Append(console, Say("ERROR: Could not find the simulation data file", << >>))
            /\ pc' = "exited"
            /\ exception' = "FileNotFoundError: data file"
            /\ UNCHANGED <<data_df, all_component_names>>
       ELSE IF data_file.status = "unreadable" \/ ~TimeDivides(data_file.columns)
       THEN /\ console' = Append(console, Say("An error occurred while processing the data file", << >>))
            /\ pc' = "exited"
            /\ exception' = "Exception: data file"
            /\ UNCHANGED <<data_df, all_component_names>>
       ELSE /\ data_df' = ProcessData(data_file.columns)
            /\ all_component_names' = Tail(ColumnNames(data_df'))
            /\ console' = Append(console, Say("Successfully processed data", << >>))
            /\ pc' = "limits_template"
            /\ UNCHANGED exception
    /\ UNCHANGED <<run, now, inputs, limits_file, config, main_output_folder, limits_map,
                   time_fine, loops, deck_state, row_state, outputs, previous_report>>

(***************************************************************************)
(* Lines 154-171: the limits file, written with defaults when absent.      *)
(***************************************************************************)
limits_example_df(names) ==
    [i \in 1..Len(names) |-> Limit(names[i], -10, 50, -15, 55)]

LimitsTemplate ==
    /\ pc = "limits_template"
    /\ IF limits_file.status = "missing"
       THEN /\ limits_file' = [status |-> "ok", rows |-> limits_example_df(all_component_names)]
            /\ console' = Append(console, Say("Limits file not found. Creating example", << >>))
       ELSE UNCHANGED <<limits_file, console>>
    /\ pc' = "read_limits"
    /\ UNCHANGED <<exception, run, now, inputs, config, main_output_folder, loaded, loops,
                   deck_state, row_state, outputs, previous_report>>

\* pd.read_csv infers the type of the ComponentName column: when every cell reads
\* as a number the column is numeric, and its values are numbers, not the text
\* that names a column of the data file
NumberKey(name) == <<"number">> \o Strip(name)

read_csv(rows) ==
    IF rows # << >> /\ \A i \in 1..Len(rows) : IsFloatText(rows[i].ComponentName)
    THEN [i \in 1..Len(rows) |-> [rows[i] EXCEPT !.ComponentName = NumberKey(@)]]
    ELSE rows

\* set_index('ComponentName') then to_dict('index')
limits_map_of(rows) ==
    [name \in {rows[i].ComponentName : i \in 1..Len(rows)} |->
        LET r == rows[CHOOSE i \in 1..Len(rows) : rows[i].ComponentName = name]
        IN  [Acceptance_Min |-> r.Acceptance_Min, Acceptance_Max |-> r.Acceptance_Max,
             Design_Min |-> r.Design_Min, Design_Max |-> r.Design_Max]]

\* np.linspace over the time column, NaN skipped by min() and max()
TimeValues(df) == SelectIdx(Column(df, T_TimeMin), LAMBDA r : Column(df, T_TimeMin)[r] # NaN)

time_fine_of(df) ==
    Linspace(SeqMin(TimeValues(df)), SeqMax(TimeValues(df)), num_interp_points)

ReadLimits ==
    /\ pc = "read_limits"
    /\ IF limits_file.status = "missing"
       THEN /\ console' = Append(console, Say("ERROR: Could not read the limits file", << >>))
            /\ pc' = "exited"
            /\ exception' = "FileNotFoundError: limits file"
            /\ UNCHANGED <<limits_map, time_fine, loop_index>>
       ELSE IF limits_file.status = "malformed"
       THEN \* only FileNotFoundError is caught at line 169
            /\ pc' = "crashed"
            /\ exception' = "ParserError: limits file"
            /\ UNCHANGED <<limits_map, time_fine, loop_index, console>>
       ELSE /\ limits_map' = limits_map_of(read_csv(limits_file.rows))
            /\ time_fine' = time_fine_of(data_df)
            /\ console' = Append(console, Say("Successfully loaded limit profiles", << >>))
            /\ pc' = "individual_plots"
            /\ loop_index' = 1
            /\ UNCHANGED exception
    /\ UNCHANGED <<run, now, inputs, limits_file, config, main_output_folder, data_df,
                   all_component_names, deck_groups, deck_index, member_index,
                   deck_state, row_state, outputs, previous_report>>

(***************************************************************************)
(* Cleaning one component's samples, the Y-range policy, and the plots.    *)
(***************************************************************************)
to_numeric(c) == IF IsNumber(c) THEN c ELSE NaN

\* data_df[['Time, min', name]] with the column coerced and dropna() applied
temp_df_of(df, name) ==
    LET t == Column(df, T_TimeMin)
        c == Column(df, name)
        rows == [r \in 1..Len(t) |-> [t |-> t[r], v |-> to_numeric(c[r])]]
    IN  SelectIdx(rows, LAMBDA r : rows[r].t # NaN /\ rows[r].v # NaN)

\* sort_values(by='Time, min')
RECURSIVE InsertByTime(_, _)
InsertByTime(sorted, row) ==
    IF sorted = << >> THEN <<row>>
    ELSE IF RLt(row.t, sorted[Len(sorted)].t)
         THEN Append(InsertByTime(SubSeq(sorted, 1, Len(sorted) - 1), row), sorted[Len(sorted)])
         ELSE Append(sorted, row)

RECURSIVE sort_values(_)
sort_values(rows) ==
    IF rows = << >> THEN << >>
    ELSE InsertByTime(sort_values(SubSeq(rows, 1, Len(rows) - 1)), rows[Len(rows)])

Times(rows) == [i \in 1..Len(rows) |-> rows[i].t]

\* data_df[['Time, min', name]] has two columns of one name when name is the time
\* column; temp_df[name] is then a DataFrame, which pd.to_numeric rejects
SelectsTimeTwice(name) == name = T_TimeMin
Values(rows) == [i \in 1..Len(rows) |-> rows[i].v]

display_name_of(name) == SplitHead(name, <<".", "T">>)
deck_prefix_of(name) == SplitHead(display_name_of(name), <<"_">>)

\* np.floor(lo / 5) * 5 and np.ceil(hi / 5) * 5
RoundOut5(lo, hi) ==
    <<R(RFloor(RDiv(lo, R(5))) * 5), R(RCeil(RDiv(hi, R(5))) * 5)>>

\* lines 236-247 and 379-389: the Y range of a full-profile plot
FullYRange(key, manual_ylimits, default_range, lo, hi) ==
    IF key \in DOMAIN manual_ylimits
    THEN [ysrc |-> "manual", ylim |-> manual_ylimits[key].v]
    ELSE IF /\ ~default_range.auto
            /\ RLe(default_range.v[1], lo)
            /\ RLe(hi, default_range.v[2])
    THEN [ysrc |-> "default", ylim |-> default_range.v]
    ELSE [ysrc |-> "auto", ylim |-> RoundOut5(lo, hi)]

\* lines 279-281, 414-416, 440-442: the Y range of a zoomed plot
ZoomYRange(lo, hi) ==
    [ysrc |-> "auto", ylim |-> RoundOut5(lo, hi)]

\* (time_fine >= r[0]) & (time_fine <= r[1]), as the indices it keeps
MaskIndices(grid, r) ==
    SelectIdx([i \in 1..Len(grid) |-> i],
              LAMBDA i : RLe(r.v[1], grid[i]) /\ RLe(grid[i], r.v[2]))

\* What indexing a parsed range with [0] and [1] against the grid raises, if anything
RangeError(r) ==
    IF r.auto THEN "TypeError" ELSE IF Len(r.v) < 2 THEN "IndexError" ELSE ""

At(values, idx) == [i \in 1..Len(idx) |-> values[idx[i]]]

Plot(kind, entity, xlim, yr, envelope, curves, hlines) ==
    [kind |-> kind, entity |-> entity, xlim |-> xlim, ylim |-> yr.ylim, ysrc |-> yr.ysrc,
     envelope |-> envelope, curves |-> curves, hlines |-> hlines]

Curve(name, label, points) == [component |-> name, label |-> label, points |-> points]

\* Saving over a file of the same kind and entity replaces it.
Save(files, p) == {q \in files : ~(q.kind = p.kind /\ q.entity = p.entity)} \cup {p}

(***************************************************************************)
(* Lines 184-295: the optional pass of individual plots.                   *)
(***************************************************************************)
IndividualFolders(name) ==
    { <<"Component_Plots_Full_Profile", deck_prefix_of(name)>>,
      <<"Component_Plots_Zoomed_Profile", deck_prefix_of(name)>> }

title_name_of(name) ==
    Replace(Replace(display_name_of(name), Append(deck_prefix_of(name), "_"), << >>),
            <<"_">>, <<" ">>)

IndividualFullPlot(name, interp) ==
    LET lo == SeqMin(interp)
        hi == SeqMax(interp)
        xlim == IF config.full_plot_x_range.auto
                THEN <<SeqMin(time_fine), SeqMax(time_fine)>>
                ELSE config.full_plot_x_range.v
    IN  Plot("individual_full", name, xlim,
             FullYRange(name, config.manual_ylimits, config.full_plot_y_range, lo, hi),
             <<lo, hi>>,
             <<Curve(name, title_name_of(name), [i \in 1..Len(time_fine) |-> i])>>, << >>)

IndividualZoomedPlot(name, rows, interp) ==
    LET r == config.zoom_plot_x_range
        mask == MaskIndices(time_fine, r)
        data_zoomed_interp == At(interp, mask)
        data_zoomed_raw == Values(SelectIdx(rows, LAMBDA i : RLe(r.v[1], rows[i].t) /\ RLe(rows[i].t, r.v[2])))
        lo == SeqMin(data_zoomed_interp)
        hi == SeqMax(data_zoomed_interp)
    IN  Plot("individual_zoomed", name, r.v,
             ZoomYRange(lo, hi),
             <<lo, hi>>,
             <<Curve(name, title_name_of(name), mask)>>,
             <<SeqMin(data_zoomed_raw), SeqMax(data_zoomed_raw)>>)

ZoomedPlotDrawn(rows) ==
    LET r == config.zoom_plot_x_range
    IN  /\ MaskIndices(time_fine, r) # << >>
        /\ \E i \in 1..Len(rows) : RLe(r.v[1], rows[i].t) /\ RLe(rows[i].t, r.v[2])

IndividualWarnings(name, p) ==
    IF p.ysrc = "auto" THEN <<Say("WARNING: exceeds default Y-limits. Auto-adjusting", name)>> ELSE << >>

IndividualPlot ==
    /\ pc = "individual_plots"
    /\ config.generate_individual_plots
    /\ loop_index <= Len(all_component_names)
    /\ LET name == all_component_names[loop_index]
           temp_df == sort_values(temp_df_of(data_df, name))
           interp == pchip_interpolate(Times(temp_df), Values(temp_df), time_fine)
           full == IndividualFullPlot(name, interp)
       IN  /\ component_name' = name
           /\ output_folders' = output_folders \cup IndividualFolders(name)
           /\ IF SelectsTimeTwice(name)
              THEN /\ pc' = "crashed"
                   /\ exception' = "TypeError: arg must be a list, tuple, 1-d array, or Series"
                   /\ UNCHANGED <<loop_index, plots, console, component_data_interp, sim_min, sim_max>>
              ELSE IF Len(temp_df) < 2
              THEN /\ console' = Append(console, Say("SKIPPING: Not enough valid data points", name))
                   /\ loop_index' = loop_index + 1
                   /\ UNCHANGED <<pc, exception, plots, component_data_interp, sim_min, sim_max>>
              ELSE IF ~StrictlyIncreasing(Times(temp_df))
              THEN /\ pc' = "crashed"
                   /\ exception' = "ValueError: x must be strictly increasing"
                   /\ UNCHANGED <<loop_index, plots, console, component_data_interp, sim_min, sim_max>>
              ELSE /\ component_data_interp' = interp
                   /\ sim_min' = SeqMin(interp)
                   /\ sim_max' = SeqMax(interp)
                   /\ console' = console \o IndividualWarnings(name, full)
                   /\ IF RangeError(config.zoom_plot_x_range) # ""
                      THEN /\ plots' = Save(plots, full)
                           /\ pc' = "crashed"
                           /\ exception' = RangeError(config.zoom_plot_x_range)
                           /\ UNCHANGED loop_index
                      ELSE /\ plots' = IF ZoomedPlotDrawn(temp_df)
                                       THEN Save(Save(plots, full), IndividualZoomedPlot(name, temp_df, interp))
                                       ELSE Save(plots, full)
                           /\ loop_index' = loop_index + 1
                           /\ UNCHANGED <<pc, exception>>
    /\ UNCHANGED <<run, now, inputs, limits_file, config, main_output_folder, loaded,
                   deck_groups, deck_index, member_index, deck_state,
                   hot_margin, cold_margin, status, report_file, previous_report>>

IndividualPlotsDone ==
    /\ pc = "individual_plots"
    /\ IF config.generate_individual_plots
       THEN /\ loop_index > Len(all_component_names)
            /\ console' = Append(console, Say("Finished generating individual plots", << >>))
       ELSE console' = Append(console, Say("Skipping generation of individual plots", << >>))
    /\ pc' = "group_components"
    /\ UNCHANGED <<exception, run, now, inputs, limits_file, config, main_output_folder,
                   loaded, loops, deck_state, row_state, outputs, previous_report>>

(***************************************************************************)
(* Lines 298-306: grouping the components by deck, in first-seen order.    *)
(***************************************************************************)
\* AddToDeck with a new member put at the front of its deck
AddToDeck_front(groups, name) ==
    LET deck == deck_prefix_of(name)
    IN  IF \E i \in 1..Len(groups) : groups[i].name = deck
        THEN [i \in 1..Len(groups) |->
                IF groups[i].name = deck
                THEN [groups[i] EXCEPT !.members = <<name>> \o @]
                ELSE groups[i]]
        ELSE Append(groups, [name |-> deck, members |-> <<name>>])

AddToDeck(groups, name) ==
    LET deck == deck_prefix_of(name)
    IN  IF \E i \in 1..Len(groups) : groups[i].name = deck
        THEN [i \in 1..Len(groups) |->
                IF groups[i].name = deck
                THEN [groups[i] EXCEPT !.members = Append(@, name)]
                ELSE groups[i]]
        ELSE Append(groups, [name |-> deck, members |-> <<name>>])

RECURSIVE deck_groups_of(_)
deck_groups_of(names) ==
    IF names = << >> THEN << >>
    ELSE AddToDeck(deck_groups_of(SubSeq(names, 1, Len(names) - 1)), names[Len(names)])

GroupComponents ==
    /\ pc = "group_components"
    /\ deck_groups' = deck_groups_of(all_component_names)
    /\ pc' = "open_report"
    /\ UNCHANGED <<exception, run, now, inputs, limits_file, config, main_output_folder,
                   loaded, loop_index, deck_index, member_index, deck_state, row_state,
                   outputs, console, previous_report>>

(***************************************************************************)
(* Lines 308-364: the report file, one section per deck, one row per       *)
(* component that was resampled.                                           *)
(***************************************************************************)
T_PASS == <<"P","A","S","S">>
T_FAIL == <<"F","A","I","L">>
T_NO_LIMITS == <<"N","O"," ","L","I","M","I","T","S">>

Line(kind, fields) == [kind |-> kind, fields |-> fields]

ReportHeader(at) ==
    << Line("rule", << >>), Line("title", << >>), Line("rule", << >>),
       Line("generated", <<NatText(at)>>), Line("blank", << >>) >>

\* DeckHeader with the time of writing put in the section title
DeckHeader_stamped(deck_name) ==
    << Line("rule", << >>), Line("deck", <<deck_name, NatText(now)>>), Line("rule", << >>),
       Line("blank", << >>), Line("header", << >>), Line("rule", << >>) >>

DeckHeader(deck_name) ==
    << Line("rule", << >>), Line("deck", <<deck_name>>), Line("rule", << >>),
       Line("blank", << >>), Line("header", << >>), Line("rule", << >>) >>

OpenReport ==
    /\ pc = "open_report"
    /\ report_file' = [exists |-> TRUE, open |-> TRUE, lines |-> ReportHeader(now)]
    /\ deck_index' = 1
    /\ pc' = "deck_begin"
    /\ UNCHANGED <<exception, run, now, inputs, limits_file, config, main_output_folder,
                   loaded, loop_index, deck_groups, member_index, deck_state, row_state,
                   output_folders, plots, console, previous_report>>

Write(file, lines) == [file EXCEPT !.lines = @ \o lines]
\* An exception inside the with block closes the file as it stands.
Closed(file) == [file EXCEPT !.open = FALSE]

DeckBegin ==
    /\ pc = "deck_begin"
    /\ deck_index <= Len(deck_groups)
    /\ console' = Append(console, Say("Processing Deck", deck_groups[deck_index].name))
    /\ report_file' = Write(report_file, DeckHeader(deck_groups[deck_index].name))
    /\ all_interp_data_for_deck' = << >>
    /\ ax_deck' = << >>
    /\ ax_deck_zoomed' = << >>
    /\ ax_deck_last_orbit' = << >>
    /\ member_index' = 1
    /\ pc' = "deck_components"
    /\ UNCHANGED <<exception, run, now, inputs, limits_file, config, main_output_folder,
                   loaded, loop_index, deck_groups, deck_index, row_state,
                   output_folders, plots, previous_report>>

\* lines 355-357
hot_margin_of(limits, smax) == RSub(limits.Acceptance_Max, smax)
cold_margin_of(limits, smin) == RSub(smin, limits.Acceptance_Min)
\* status_of with the two margins joined by "or"
status_of_either(hot, cold) == IF RLe(R(0), hot) \/ RLe(R(0), cold) THEN T_PASS ELSE T_FAIL

status_of(hot, cold) == IF RLe(R(0), hot) /\ RLe(R(0), cold) THEN T_PASS ELSE T_FAIL

\* "[{a:<6.kf}, {b:<6.kf}]"
RangeStr(a, b, k) ==
    <<"[">> \o PadRight(FormatFixed(a, k), 6) \o <<",", " ">> \o PadRight(FormatFixed(b, k), 6) \o <<"]">>

RowName(name) == PadRight(Replace(display_name_of(name), <<"_">>, <<" ">>), 25)

\* line 360
LimitsRow(name, smin, smax, limits, hot, verdict) ==
    Line("row", << RowName(name),
                   PadRight(RangeStr(smin, smax, 1), 15),
                   PadRight(RangeStr(limits.Acceptance_Min, limits.Acceptance_Max, 0), 18),
                   PadRight(FormatFixed(hot, 2), 15),
                   PadRight(verdict, 10) >>)

\* NoLimitsRow with the missing limits reported as a failure with no margin
NoLimitsRow_as_fail(name) ==
    Line("row", << RowName(name), PadRight(T_NA, 15), PadRight(T_NA, 18),
                   PadRight(FormatFixed(R(0), 2), 15), PadRight(T_FAIL, 10) >>)

\* line 362
NoLimitsRow(name) ==
    Line("row", << RowName(name), PadRight(T_NA, 15), PadRight(T_NA, 18),
                   PadRight(T_NA, 15), PadRight(T_NO_LIMITS, 10) >>)

HasLimits(name, map) == name \in DOMAIN map

legend_label_of(name, deck_name) ==
    Replace(Replace(display_name_of(name), Append(deck_name, "_"), << >>), <<"_">>, <<" ">>)

IsExcluded(name, excluded) == name \in excluded

DeckComponent ==
    /\ pc = "deck_components"
    /\ member_index <= Len(deck_groups[deck_index].members)
    /\ LET deck_name == deck_groups[deck_index].name
           name == deck_groups[deck_index].members[member_index]
           temp_df == temp_df_of(data_df, name)
           interp == pchip_interpolate(Times(temp_df), Values(temp_df), time_fine)
           label == legend_label_of(name, deck_name)
           zr == config.deck_zoom_plot_x_range
           lr == config.deck_last_orbit_plot_x_range
           zoom_mask == MaskIndices(time_fine, zr)
           last_orbit_mask == MaskIndices(time_fine, lr)
           smin == SeqMin(interp)
           smax == SeqMax(interp)
           limits == limits_map[name]
           hot == hot_margin_of(limits, smax)
           cold == cold_margin_of(limits, smin)
       IN  /\ component_name' = name
           /\ IF IsExcluded(name, config.excluded_components)
                 \/ (~SelectsTimeTwice(name) /\ Len(temp_df) < 2)
              THEN /\ member_index' = member_index + 1
                   /\ UNCHANGED <<pc, exception, deck_state, report_file, component_data_interp,
                                  sim_min, sim_max, hot_margin, cold_margin, status>>
              ELSE IF SelectsTimeTwice(name)
              THEN /\ pc' = "crashed"
                   /\ exception' = "TypeError: arg must be a list, tuple, 1-d array, or Series"
                   /\ report_file' = Closed(report_file)
                   /\ UNCHANGED <<member_index, deck_state, component_data_interp,
                                  sim_min, sim_max, hot_margin, cold_margin, status>>
              ELSE IF ~StrictlyIncreasing(Times(temp_df))
              THEN /\ pc' = "crashed"
                   /\ exception' = "ValueError: x must be strictly increasing"
                   /\ report_file' = Closed(report_file)
                   /\ UNCHANGED <<member_index, deck_state, component_data_interp,
                                  sim_min, sim_max, hot_margin, cold_margin, status>>
              ELSE /\ component_data_interp' = interp
                   /\ all_interp_data_for_deck' = Append(all_interp_data_for_deck, interp)
                   /\ ax_deck' = Append(ax_deck, Curve(name, label, [i \in 1..Len(time_fine) |-> i]))
                   /\ IF RangeError(zr) # ""
                      THEN /\ pc' = "crashed"
                           /\ exception' = RangeError(zr)
                           /\ report_file' = Closed(report_file)
                           /\ UNCHANGED <<member_index, ax_deck_zoomed, ax_deck_last_orbit,
                                          sim_min, sim_max, hot_margin, cold_margin, status>>
                      ELSE /\ ax_deck_zoomed' = IF zoom_mask # << >>
                                                THEN Append(ax_deck_zoomed, Curve(name, label, zoom_mask))
                                                ELSE ax_deck_zoomed
                           /\ IF RangeError(lr) # ""
                              THEN /\ pc' = "crashed"
                                   /\ exception' = RangeError(lr)
                                   /\ report_file' = Closed(report_file)
                                   /\ UNCHANGED <<member_index, ax_deck_last_orbit,
                                                  sim_min, sim_max, hot_margin, cold_margin, status>>
                              ELSE /\ ax_deck_last_orbit' =
                                        IF last_orbit_mask # << >>
                                        THEN Append(ax_deck_last_orbit, Curve(name, label, last_orbit_mask))
                                        ELSE ax_deck_last_orbit
                                   /\ sim_min' = smin
                                   /\ sim_max' = smax
                                   /\ IF HasLimits(name, limits_map)
                                      THEN /\ hot_margin' = hot
                                           /\ cold_margin' = cold
                                           /\ status' = status_of(hot, cold)
                                           /\ report_file' = Write(report_file,
                                                <<LimitsRow(name, smin, smax, limits, hot, status')>>)
                                      ELSE /\ report_file' = Write(report_file, <<NoLimitsRow(name)>>)
                                           /\ UNCHANGED <<hot_margin, cold_margin, status>>
                                   /\ member_index' = member_index + 1
                                   /\ UNCHANGED <<pc, exception>>
    /\ UNCHANGED <<run, now, inputs, limits_file, config, main_output_folder, loaded,
                   loop_index, deck_groups, deck_index, output_folders, plots, console,
                   previous_report>>

(***************************************************************************)
(* Lines 364-449: the three consolidated plots of a deck.                  *)
(***************************************************************************)
\* np.min and np.max over a list of series
RECURSIVE Flatten(_)
Flatten(ss) == IF ss = << >> THEN << >> ELSE ss[1] \o Flatten(Tail(ss))

\* np.where(time_fine >= r[0])[0][0], or 0 when there is no such index
StartIndex(grid, r) ==
    IF \E i \in 1..Len(grid) : RLe(r.v[1], grid[i])
    THEN CHOOSE i \in 1..Len(grid) :
            /\ RLe(r.v[1], grid[i])
            /\ \A j \in 1..(i - 1) : ~RLe(r.v[1], grid[j])
    ELSE 0

\* np.array(all_interp_data_for_deck)[:, start:]
FromIndex(ss, start) == [k \in 1..Len(ss) |-> SubSeq(ss[k], start, Len(ss[k]))]

\* lines 412-413 and 438-439
WindowEnvelope(ss, grid, r) ==
    LET cut == Flatten(FromIndex(ss, StartIndex(grid, r)))
    IN  <<SeqMin(cut), SeqMax(cut)>>

DeckFullPlot ==
    /\ pc = "deck_components"
    /\ member_index > Len(deck_groups[deck_index].members)
    /\ LET deck_name == deck_groups[deck_index].name
           all == Flatten(all_interp_data_for_deck)
           deck_min == SeqMin(all)
           deck_max == SeqMax(all)
           yr == FullYRange(deck_name, config.manual_ylimits, config.deck_plot_y_range,
                            deck_min, deck_max)
       IN  IF all_interp_data_for_deck = << >>
           THEN \* np.min of an empty list
                /\ pc' = "crashed"
                /\ exception' = "ValueError: zero-size array"
                /\ report_file' = Closed(Write(report_file, <<Line("blank", << >>)>>))
                /\ UNCHANGED <<plots, console>>
           ELSE /\ report_file' = Write(report_file, <<Line("blank", << >>)>>)
                /\ plots' = Save(plots, Plot("deck_full", deck_name,
                                             <<SeqMin(time_fine), SeqMax(time_fine)>>, yr,
                                             <<deck_min, deck_max>>, ax_deck, << >>))
                /\ console' = IF yr.ysrc = "auto"
                              THEN Append(console, Say("WARNING: exceeds default Y-limits. Auto-adjusting", deck_name))
                              ELSE console
                /\ pc' = "deck_zoomed_plot"
                /\ UNCHANGED exception
    /\ UNCHANGED <<run, now, inputs, limits_file, config, main_output_folder, loaded, loops,
                   deck_state, row_state, output_folders, previous_report>>

WindowPlotError(r) ==
    IF RangeError(r) # "" THEN RangeError(r)
    ELSE IF StartIndex(time_fine, r) = 0 THEN "IndexError: index 0 is out of bounds"
    ELSE ""

DeckWindowPlot(kind, r, axes, next_pc) ==
    LET deck_name == deck_groups[deck_index].name
        env == WindowEnvelope(all_interp_data_for_deck, time_fine, r)
    IN  IF WindowPlotError(r) # ""
        THEN /\ pc' = "crashed"
             /\ exception' = WindowPlotError(r)
             /\ report_file' = Closed(report_file)
             /\ UNCHANGED plots
        ELSE /\ plots' = Save(plots, Plot(kind, deck_name, r.v, ZoomYRange(env[1], env[2]),
                                          env, axes, << >>))
             /\ pc' = next_pc
             /\ UNCHANGED <<exception, report_file>>

DeckZoomedPlot ==
    /\ pc = "deck_zoomed_plot"
    /\ DeckWindowPlot("deck_zoomed", config.deck_zoom_plot_x_range, ax_deck_zoomed,
                      "deck_last_orbit_plot")
    /\ UNCHANGED <<run, now, inputs, limits_file, config, main_output_folder, loaded, loops,
                   deck_state, row_state, output_folders, console, previous_report>>

DeckLastOrbitPlot ==
    /\ pc = "deck_last_orbit_plot"
    /\ DeckWindowPlot("deck_last_orbit", config.deck_last_orbit_plot_x_range,
                      ax_deck_last_orbit, "deck_begin")
    /\ deck_index' = IF WindowPlotError(config.deck_last_orbit_plot_x_range) # ""
                     THEN deck_index ELSE deck_index + 1
    /\ UNCHANGED <<run, now, inputs, limits_file, config, main_output_folder, loaded,
                   loop_index, deck_groups, member_index, deck_state, row_state,
                   output_folders, console, previous_report>>

(***************************************************************************)
(* Lines 451-458: the with block ends and the run reports completion.      *)
(***************************************************************************)
Finish ==
    /\ pc = "deck_begin"
    /\ deck_index > Len(deck_groups)
    /\ report_file' = Closed(report_file)
    /\ console' = Append(console, Say("Processing complete.", << >>))
    /\ pc' = "done"
    /\ UNCHANGED <<exception, run, now, inputs, limits_file, config, main_output_folder,
                   loaded, loops, deck_state, row_state, output_folders, plots,
                   previous_report>>

\* The operator runs the script again on the files as they now are.
Rerun ==
    /\ pc = "done"
    /\ run < MaxRuns
    /\ run' = run + 1
    /\ previous_report' = report_file.lines
    /\ pc' = "read_config"
    /\ exception' = ""
    /\ config' = NoConfig
    /\ data_df' = << >>
    /\ all_component_names' = << >>
    /\ limits_map' = << >>
    /\ time_fine' = << >>
    /\ loop_index' = 0
    /\ deck_groups' = << >>
    /\ deck_index' = 0
    /\ member_index' = 0
    /\ component_name' = << >>
    /\ component_data_interp' = << >>
    /\ all_interp_data_for_deck' = << >>
    /\ ax_deck' = << >>
    /\ ax_deck_zoomed' = << >>
    /\ ax_deck_last_orbit' = << >>
    /\ sim_min' = NaN /\ sim_max' = NaN /\ hot_margin' = NaN /\ cold_margin' = NaN
    /\ status' = << >>
    /\ console' = << >>
    /\ UNCHANGED <<now, inputs, limits_file, main_output_folder, outputs>>

Next ==
    \/ ReadConfig
    \/ Tick
    \/ MakeFolders
    \/ ReadData
    \/ LimitsTemplate
    \/ ReadLimits
    \/ IndividualPlot
    \/ IndividualPlotsDone
    \/ GroupComponents
    \/ OpenReport
    \/ DeckBegin
    \/ DeckComponent
    \/ DeckFullPlot
    \/ DeckZoomedPlot
    \/ DeckLastOrbitPlot
    \/ Finish

Spec == Init /\ [][Next]_vars

\* Runs of the script repeated on the same input files.
SpecRerun == Init /\ [][Next \/ Rerun]_vars

(***************************************************************************)
(* Properties.                                                             *)
(***************************************************************************)
Last(seq) == seq[Len(seq)]

\* The step is one turn of the report loop that wrote a row.
RowWritten ==
    /\ pc = "deck_components"
    /\ pc' = "deck_components"
    /\ member_index' = member_index + 1
    /\ Len(report_file'.lines) = Len(report_file.lines) + 1
    /\ Last(report_file'.lines).kind = "row"

RowVerdict(line) == Strip(line.fields[5])

\* C1: a component with a limit record that gets a report row has hot_margin =
\* Acceptance_Max - sim_max and cold_margin = sim_min - Acceptance_Min, with sim_min
\* and sim_max the extremes of its interpolated series, and the verdict written is
\* PASS exactly when both margins are >= 0 and FAIL otherwise; limits (-10, 50) with
\* the range [-12, 45] give margins 5 and -2 and the verdict FAIL.
C1_VerdictFollowsMargins ==
    [][ (RowWritten /\ component_name' \in DOMAIN limits_map) =>
            LET lim == limits_map[component_name']
                row == Last(report_file'.lines)
                bothOk == hot_margin'[1] >= 0 /\ cold_margin'[1] >= 0
            IN  /\ sim_min' = SeqMin(component_data_interp')
                /\ sim_max' = SeqMax(component_data_interp')
                /\ RAdd(hot_margin', sim_max') = lim.Acceptance_Max
                /\ RAdd(cold_margin', lim.Acceptance_Min) = sim_min'
                /\ RowVerdict(row) = status'
                /\ status' \in {T_PASS, T_FAIL}
                /\ (status' = T_PASS) <=> bothOk
                /\ (lim.Acceptance_Min = R(-10) /\ lim.Acceptance_Max = R(50)
                        /\ sim_min' = R(-12) /\ sim_max' = R(45))
                    => (hot_margin' = R(5) /\ cold_margin' = R(-2) /\ status' = T_FAIL) ]_vars

C1_Witness ==
    /\ pc = "deck_components"
    /\ component_name = PWR_Battery_T1
    /\ component_name \in DOMAIN limits_map
    /\ limits_map[component_name].Acceptance_Min = R(-10)
    /\ limits_map[component_name].Acceptance_Max = R(50)
    /\ sim_min = R(-12) /\ sim_max = R(45)
    /\ hot_margin = R(5) /\ cold_margin = R(-2)
    /\ report_file.lines # << >>
    /\ Last(report_file.lines).kind = "row"
    /\ RowVerdict(Last(report_file.lines)) = T_FAIL

\* The step is one turn of the report loop on a component that is resampled:
\* not excluded, at least two valid samples, interpolated without an exception.
Resampled ==
    /\ pc = "deck_components"
    /\ pc' = "deck_components"
    /\ member_index' = member_index + 1
    /\ component_name' \notin config.excluded_components
    /\ Len(temp_df_of(data_df, component_name')) >= 2

\* C2: a resampled component with no entry in the limits mapping gets exactly one
\* report row, whose verdict is NO LIMITS and whose range and margin fields all read
\* N/A; the row shows no number and neither PASS nor FAIL.
C2_NoLimitsRow ==
    [][ (Resampled /\ component_name' \notin DOMAIN limits_map) =>
            LET row == Last(report_file'.lines)
            IN  /\ Len(report_file'.lines) = Len(report_file.lines) + 1
                /\ row.kind = "row"
                /\ RowVerdict(row) = T_NO_LIMITS
                /\ \A f \in 2..4 : Strip(row.fields[f]) = T_NA
                /\ \A f \in 2..5 : \A i \in 1..Len(row.fields[f]) : ~IsDigit(row.fields[f][i]) ]_vars

C2_Witness ==
    /\ pc = "deck_components"
    /\ member_index > 1
    /\ component_name = PWR_Heater_T2
    /\ component_name \notin DOMAIN limits_map
    /\ component_name \notin config.excluded_components
    /\ report_file.lines # << >>
    /\ Last(report_file.lines).kind = "row"
    /\ RowVerdict(Last(report_file.lines)) = T_NO_LIMITS
    /\ Strip(Last(report_file.lines).fields[4]) = T_NA

ValidCount(name) == Len(temp_df_of(data_df, name))
Printed(msg, arg) == \E i \in 1..Len(console) : console[i] = Say(msg, arg)

\* C3 (as claimed): whatever the individual-plot toggle, a component with fewer than
\* 2 valid samples that the report loop reaches gets no interpolated series, no
\* compliance result and no report row, and the run has printed a skip message for it.
C3_SparseComponentRecordedAsSkipped ==
    [][ ( /\ pc = "deck_components"
          /\ member_index' = member_index + 1
          /\ component_name' \notin config.excluded_components
          /\ ValidCount(component_name') < 2 )
        => /\ report_file' = report_file
           /\ all_interp_data_for_deck' = all_interp_data_for_deck
           /\ <<sim_min', sim_max', hot_margin', cold_margin', status'>>
                = <<sim_min, sim_max, hot_margin, cold_margin, status>>
           /\ \E i \in 1..Len(console') :
                console'[i] = Say("SKIPPING: Not enough valid data points", component_name') ]_vars

LoadErrors ==
    {"config.ini not found", "ValueError in config", "FileNotFoundError: data file",
     "Exception: data file", "FileNotFoundError: limits file", "ParserError: limits file"}

LoadAbort == pc \in {"exited", "crashed"} /\ exception \in LoadErrors

\* C4 (as claimed): when the run aborts on the configuration, the data file or the
\* limits file, it has made no output folder, written no limits template, no report
\* file and no plot image.
C4_LoadAbortLeavesNoOutput ==
    LoadAbort =>
        /\ output_folders = {}
        /\ ~report_file.exists
        /\ plots = {}
        /\ ~Printed("Limits file not found. Creating example", << >>)

WindowUsable(r) == RangeError(r) = "" /\ StartIndex(time_fine, r) # 0

WindowsUsable ==
    /\ WindowUsable(config.zoom_plot_x_range)
    /\ WindowUsable(config.deck_zoom_plot_x_range)
    /\ WindowUsable(config.deck_last_orbit_plot_x_range)

LoadedOk == config.ok /\ time_fine # << >>

TimeColumnFirst == \A i \in 1..Len(all_component_names) : all_component_names[i] # T_TimeMin

RowsInTimeOrder == StrictlyIncreasing(TimeValues(data_df))

\* C5 (as claimed): once configuration, data and limits have loaded, no per-component
\* condition (too few valid samples, no limit record) stops the run: with view
\* windows that lie on the time axis, nothing excluded, the time column first in the
\* file and its rows in time order, the run never ends in an uncaught exception and
\* never leaves the report closed short of its last deck.
C5_NoCrashOnceLoaded ==
    (LoadedOk /\ WindowsUsable /\ TimeColumnFirst /\ RowsInTimeOrder
        /\ config.excluded_components = {}) =>
        /\ pc # "crashed"
        /\ (report_file.exists /\ ~report_file.open) => pc = "done"

\* C6 (as claimed): a second run on the same input files and configuration leaves a
\* report identical, line for line, to the report of the first run.
C6_ReportsIdentical ==
    (run >= 2 /\ pc = "done") => report_file.lines = previous_report

Undated(lines) == SelectIdx(lines, LAMBDA i : lines[i].kind # "generated")
DatedAt(lines) == {i \in 1..Len(lines) : lines[i].kind = "generated"}

\* C6 (amended): the two reports have the same lines in the same places except for
\* the single "Generated on:" line, which carries the time of the run.
C6_ReportsIdenticalButDate ==
    (run >= 2 /\ pc = "done") =>
        /\ Len(report_file.lines) = Len(previous_report)
        /\ DatedAt(report_file.lines) = {4}
        /\ DatedAt(previous_report) = {4}
        /\ \A i \in 1..Len(previous_report) : i # 4 => report_file.lines[i] = previous_report[i]

C6_Witness ==
    /\ run >= 2
    /\ pc = "done"
    /\ report_file.lines # previous_report
    /\ Undated(report_file.lines) = Undated(previous_report)
    /\ \E i \in 1..Len(report_file.lines) : report_file.lines[i].kind = "row"

\* The identifier cut at its first ".T", then at its first "_", said without search.
IsDotT(name, j) == j + 1 <= Len(name) /\ name[j] = "." /\ name[j + 1] = "T"

IsDeckNameOf(d, name) ==
    \E n \in 0..Len(name) :
        /\ n = Len(name) \/ IsDotT(name, n + 1)
        /\ \A j \in 1..n : ~IsDotT(name, j)
        /\ \E k \in 0..n :
            /\ d = SubSeq(name, 1, k)
            /\ k = n \/ name[k + 1] = "_"
            /\ \A j \in 1..k : name[j] # "_"

Position(names, name) == CHOOSE i \in 1..Len(names) : names[i] = name
Slots == {<<g, m>> : g \in 1..Len(deck_groups), m \in 1..Len(all_component_names)}
MemberSlots == {sl \in Slots : sl[2] <= Len(deck_groups[sl[1]].members)}

\* C7: every identifier is a member of exactly one deck, the deck named by the text
\* before the first "_" of the identifier cut at its first ".T"; members keep their
\* column order, decks are in the order their first member appears, and the three
\* identifiers PWR_Battery.T1, PWR_Heater.T2, THM_Radiator.T1 give PWR then THM.
C7_GroupingByDeckPrefix ==
    deck_groups # << >> =>
        /\ \A i \in 1..Len(all_component_names) :
             /\ Cardinality({sl \in MemberSlots :
                    deck_groups[sl[1]].members[sl[2]] = all_component_names[i]}) = 1
             /\ \A sl \in MemberSlots :
                    deck_groups[sl[1]].members[sl[2]] = all_component_names[i]
                    => IsDeckNameOf(deck_groups[sl[1]].name, all_component_names[i])
        /\ Cardinality(MemberSlots) = Len(all_component_names)
        /\ \A g \in 1..Len(deck_groups) :
             /\ deck_groups[g].members # << >>
             /\ \A m1, m2 \in 1..Len(deck_groups[g].members) :
                    m1 < m2 => Position(all_component_names, deck_groups[g].members[m1])
                               < Position(all_component_names, deck_groups[g].members[m2])
        /\ \A g1, g2 \in 1..Len(deck_groups) :
             g1 < g2 => /\ deck_groups[g1].name # deck_groups[g2].name
                        /\ Position(all_component_names, deck_groups[g1].members[1])
                           < Position(all_component_names, deck_groups[g2].members[1])
        /\ all_component_names = <<PWR_Battery_T1, PWR_Heater_T2, THM_Radiator_T1>>
            => deck_groups = << [name |-> <<"P","W","R">>, members |-> <<PWR_Battery_T1, PWR_Heater_T2>>],
                                [name |-> <<"T","H","M">>, members |-> <<THM_Radiator_T1>>] >>

C7_Witness ==
    /\ pc = "open_report"
    /\ all_component_names = <<PWR_Battery_T1, PWR_Heater_T2, THM_Radiator_T1>>
    /\ Len(deck_groups) = 2
    /\ deck_groups[1].members = <<PWR_Battery_T1, PWR_Heater_T2>>
    /\ deck_groups[2].name = <<"T","H","M">>

ExcludedColumns ==
    {all_component_names[i] : i \in 1..Len(all_component_names)} \cap config.excluded_components

\* C8 (as claimed): an excluded component stays a member of its deck, and no product
\* of the run shows it: no report row, no curve in a deck plot, no individual plot.
C8_ExcludedNeverShown ==
    config.ok =>
        \A c \in ExcludedColumns :
            /\ deck_groups # << >> =>
                    \E g \in 1..Len(deck_groups) : \E m \in 1..Len(deck_groups[g].members) :
                        deck_groups[g].members[m] = c
            /\ \A i \in 1..Len(report_file.lines) :
                    report_file.lines[i].kind = "row" => report_file.lines[i].fields[1] # RowName(c)
            /\ \A p \in plots :
                    /\ p.entity # c
                    /\ \A k \in 1..Len(p.curves) : p.curves[k].component # c

\* C9 (as claimed): a plot of an entity (component or deck) for which config.ini
\* holds a manual Y-limit override has exactly that override as its Y range, in every
\* window type.
C9_ManualOverrideWins ==
    \A p \in plots :
        \A i \in 1..Len(config_file.MANUAL_Y_LIMITS) :
            config_file.MANUAL_Y_LIMITS[i][1] = p.entity
            => p.ylim = parse_range(config_file.MANUAL_Y_LIMITS[i][2]).v

\* The grid indices inside the span of a component's own valid samples.
OwnSpan(name) ==
    LET rows == temp_df_of(data_df, name)
    IN  SelectIdx([i \in 1..Len(time_fine) |-> i],
                  LAMBDA i : RLe(SeqMin(Times(rows)), time_fine[i])
                             /\ RLe(time_fine[i], SeqMax(Times(rows))))

\* C10 (as claimed): the sim_min and sim_max behind a report row are the extremes of
\* the interpolated values at the grid points inside the component's own sampled
\* time range; no value at a grid point outside it takes part.
C10_ExtremesWithinOwnSpan ==
    [][ RowWritten =>
            LET idx == OwnSpan(component_name')
            IN  /\ idx # << >>
                /\ sim_min' = SeqMin(At(component_data_interp', idx))
                /\ sim_max' = SeqMax(At(component_data_interp', idx)) ]_vars

\* The columns of the data file that hold time: the minutes column and any seconds
\* column beside it, or the first column when there is no minutes column.
IsTimeColumn(columns, i) ==
    IF HasColumn(columns, T_TimeMin)
    THEN columns[i].name \in {T_TimeMin, T_TimeS}
    ELSE i = 1

NonTimeColumns(columns) ==
    ColumnNames(SelectIdx(columns, LAMBDA i : ~IsTimeColumn(columns, i)))

DataLoaded == data_file.status = "ok" /\ data_df # << >>

\* C11 (as claimed): after loading, the time axis is the minutes column of the file
\* wherever it sits, else the first column divided by 60; no seconds column is left
\* beside it; and the component identifiers are exactly the non-time columns of the
\* file in their column order.
C11_ComponentsAreNonTimeColumns ==
    DataLoaded =>
        /\ HasColumn(data_df, T_TimeMin)
        /\ ~HasColumn(data_df, T_TimeS)
        /\ all_component_names = NonTimeColumns(data_file.columns)

TemplateWritten == Printed("Limits file not found. Creating example", << >>)

IsDefaultRecord(r) ==
    /\ r.Acceptance_Min = R(-10) /\ r.Acceptance_Max = R(50)
    /\ r.Design_Min = R(-15) /\ r.Design_Max = R(55)

\* C12 (as claimed): in a run that found no limits file, the file exists before the
\* limits are read and holds the record Acceptance [-10, 50], Design [-15, 55] for
\* every component identifier; the run does not stop on the limits file; and once
\* the limits are read every component has a limit record, so no report row has the
\* verdict NO LIMITS.
C12_TemplateCoversEveryComponent ==
    TemplateWritten =>
        /\ limits_file.status = "ok"
        /\ Len(limits_file.rows) = Len(all_component_names)
        /\ \A i \in 1..Len(all_component_names) :
                /\ limits_file.rows[i].ComponentName = all_component_names[i]
                /\ IsDefaultRecord(limits_file.rows[i])
        /\ exception \notin {"FileNotFoundError: limits file", "ParserError: limits file"}
        /\ time_fine # << >> =>
                /\ \A i \in 1..Len(all_component_names) :
                        /\ all_component_names[i] \in DOMAIN limits_map
                        /\ IsDefaultRecord(limits_map[all_component_names[i]])
                /\ \A i \in 1..Len(report_file.lines) :
                        report_file.lines[i].kind = "row"
                        => RowVerdict(report_file.lines[i]) # T_NO_LIMITS

\* The plot of the given kind saved for the deck in hand.
DeckPlotOf(files, kind) ==
    CHOOSE p \in files : p.kind = kind /\ p.entity = deck_groups[deck_index].name

\* The values of the deck's series at the grid points t with r[0] <= t <= r[1].
InWindow(r) ==
    Flatten([k \in 1..Len(all_interp_data_for_deck) |->
                At(all_interp_data_for_deck[k], MaskIndices(time_fine, r))])

EnvelopeIsOfWindow(files, kind, r) ==
    LET p == DeckPlotOf(files, kind)
    IN  MaskIndices(time_fine, r) # << >> =>
            /\ \A c \in 1..Len(p.curves) : p.curves[c].points = MaskIndices(time_fine, r)
            /\ p.envelope = <<SeqMin(InWindow(r)), SeqMax(InWindow(r))>>
            /\ p.ylim = RoundOut5(SeqMin(InWindow(r)), SeqMax(InWindow(r)))

\* C13 (as claimed): the envelope that sets the Y range of a deck's last-2-orbits
\* plot and of its last-orbit plot is the min and max of the interpolated values at
\* exactly the grid points t0 <= t <= t1 of the window, the points that are drawn;
\* values at grid points after t1 take no part.
C13_EnvelopeOverWindowOnly ==
    [][ /\ (pc = "deck_zoomed_plot" /\ pc' = "deck_last_orbit_plot")
            => EnvelopeIsOfWindow(plots', "deck_zoomed", config.deck_zoom_plot_x_range)
        /\ (pc = "deck_last_orbit_plot" /\ pc' = "deck_begin")
            => EnvelopeIsOfWindow(plots', "deck_last_orbit", config.deck_last_orbit_plot_x_range)
      ]_vars

\* The step is the individual-plot pass, or the report pass, reaching a component.
IndividualPassStep ==
    /\ pc = "individual_plots"
    /\ config.generate_individual_plots
    /\ loop_index <= Len(all_component_names)
    /\ component_name' = all_component_names[loop_index]

ReportPassStep ==
    /\ pc = "deck_components"
    /\ member_index <= Len(deck_groups[deck_index].members)
    /\ component_name' = deck_groups[deck_index].members[member_index]
    /\ component_name' \notin config.excluded_components

\* The component's valid samples, sorted by time, can be interpolated; the step then
\* interpolates exactly them.
InterpolatesSorted(name) ==
    LET rows == sort_values(temp_df_of(data_df, name))
    IN  (name # T_TimeMin /\ Len(rows) >= 2 /\ StrictlyIncreasing(Times(rows))) =>
            /\ exception' # "ValueError: x must be strictly increasing"
            /\ component_data_interp' = pchip_interpolate(Times(rows), Values(rows), time_fine)

\* C14 (as claimed): in the individual-plot pass and in the report pass alike, the
\* samples handed to the interpolation are the component's valid samples sorted by
\* time ascending, so both passes interpolate the same series for a component.
C14_BothPassesInterpolateSorted ==
    [][ /\ IndividualPassStep => InterpolatesSorted(component_name')
        /\ ReportPassStep => InterpolatesSorted(component_name') ]_vars

\* The time range config.ini sets for the view window of a plot of the given kind.
WindowOf(kind) ==
    CASE kind = "individual_full" -> config.full_plot_x_range
      [] kind = "individual_zoomed" -> config.zoom_plot_x_range
      [] kind = "deck_full" -> config.deck_plot_x_range
      [] kind = "deck_zoomed" -> config.deck_zoom_plot_x_range
      [] kind = "deck_last_orbit" -> config.deck_last_orbit_plot_x_range

WindowErrors == {"TypeError", "IndexError", "IndexError: index 0 is out of bounds"}

\* C15 (as claimed): for every view window, individual and deck, a time range of
\* 'auto' is accepted and shows the full time extent of the data, a range t0, t1
\* shows the closed interval [t0, t1], and neither setting ends the run in an error.
C15_AutoAndIntervalAccepted ==
    config.ok =>
        /\ exception \notin WindowErrors
        /\ \A p \in plots :
                p.xlim = IF WindowOf(p.kind).auto
                         THEN <<SeqMin(time_fine), SeqMax(time_fine)>>
                         ELSE WindowOf(p.kind).v

====
